---- MODULE Spec2Model ----
(***************************************************************************)
(* CooLex (src/main.py): an automated bowl-assembly station.  The model    *)
(* keeps the Ingredient objects (a heap indexed by object identity), the   *)
(* CooLex instance's fields, the catalog tree built by create_tree, and    *)
(* what each call leaves behind: the exception or return value, the lines  *)
(* printed, and the caller's topping_indices list.                         *)
(***************************************************************************)
EXTENDS Integers, Sequences, FiniteSets, Bags, TLC

VARIABLES
    ingredients,       \* heap of Ingredient objects: id -> [name, total_stock, stock, quantity, position]
    bowls,             \* CooLex.bowls: an Ingredient id
    bases,             \* CooLex.bases: list of Ingredient ids
    proteins,          \* CooLex.proteins
    toppings,          \* CooLex.toppings
    sauces,            \* CooLex.sauces
    root,              \* CooLex.root: the catalog tree
    current_position,  \* CooLex.current_position
    total_distance,    \* CooLex.total_distance
    current_node,      \* CooLex.current_node: the node's path of child positions from root
    call,              \* the last call: operation, arguments, and the state it started from
    result,            \* what the last call returned or raised
    out,               \* the lines the last call printed
    previous           \* how the order before the last call ended

vars == <<ingredients, bowls, bases, proteins, toppings, sauces, root,
          current_position, total_distance, current_node, call, result, out, previous>>

catalogVars == <<bowls, bases, proteins, toppings, sauces, root>>

-----------------------------------------------------------------------------
(* Bounds of the model.                                                    *)

\* longest topping_indices list an order is called with (main() passes 3)
MaxToppings == 3
\* longest topping_indices list of the index-resolution specification
MaxWideToppings == 2
\* the ledger specification: an ingredient of up to MaxStock units, used up to
\* MaxQuantity at a time
MaxStock == 100
MaxQuantity == 20
\* Python's None, where an Ingredient (an id, 1 or more) may stand
None == 0
\* no exception raised
NotRaised == [type |-> "None"]
\* CooLex.current_node before the first reset: __init__ does not set it
NoNode == <<0>>

-----------------------------------------------------------------------------
(* Python lists.                                                           *)

\* list[i] raises IndexError unless -len <= i < len
IndexInRange(list, i) == -Len(list) <= i /\ i < Len(list)

\* position (1-based) of list[i] in list: a negative i counts from the end
ListPos(list, i) == IF i >= 0 THEN i + 1 ELSE Len(list) + i + 1

RECURSIVE InsertDesc(_, _)
InsertDesc(x, sorted) ==
    IF sorted = <<>> THEN <<x>>
    ELSE IF x > Head(sorted) THEN <<x>> \o sorted
    ELSE <<Head(sorted)>> \o InsertDesc(x, Tail(sorted))

\* list.sort(reverse=True) on a list of ints
RECURSIVE SortReverse(_)
SortReverse(list) ==
    IF list = <<>> THEN <<>>
    ELSE InsertDesc(Head(list), SortReverse(Tail(list)))

-----------------------------------------------------------------------------
(* Python floats (IEEE-754 binary64), as far as is_below_threshold needs   *)
(* them.  A positive float is [e, m]: m is its 53-bit significand as three *)
(* limbs <<m2, m1, m0>> in base 2^18 (m2 has 17 bits, its top bit set),    *)
(* so M = m2*2^36 + m1*2^18 + m0 and the value is M * 2^(e - 53).          *)
(* Zero is FloatZero.  Every intermediate fits a 32-bit integer.           *)

\* 2^18 and 2^9
Limb == 262144
HalfLimb == 512

FloatZero == [e |-> 0, m |-> <<0, 0, 0>>]

RECURSIVE Pow2(_)
Pow2(n) == IF n = 0 THEN 1 ELSE 2 * Pow2(n - 1)

\* number of bits of n >= 0
RECURSIVE BitLength(_)
BitLength(n) == IF n = 0 THEN 0 ELSE 1 + BitLength(n \div 2)

\* round to nearest, ties to even: q = <<q2, q1, q0>> holds 54 bits (the
\* significand followed by the rounding bit) of the value 0.q * 2^e, sticky
\* says whether anything nonzero follows
RoundNearestEven(e, q, sticky) ==
    LET m0 == (q[3] \div 2) + (q[2] % 2) * (Limb \div 2)
        m1 == (q[2] \div 2) + (q[1] % 2) * (Limb \div 2)
        m2 == q[1] \div 2
        up == q[3] % 2 = 1 /\ (sticky \/ m0 % 2 = 1)
        c0 == IF up /\ m0 + 1 = Limb THEN 1 ELSE 0
        c1 == IF c0 = 1 /\ m1 + 1 = Limb THEN 1 ELSE 0
        r0 == IF up THEN (m0 + 1) % Limb ELSE m0
        r1 == (m1 + c0) % Limb
        r2 == m2 + c1
    IN IF r2 = Limb \div 2
       THEN [e |-> e + 1, m |-> <<Limb \div 4, 0, 0>>]
       ELSE [e |-> e, m |-> <<r2, r1, r0>>]

\* the float nearest to 0.p * 2^e, for p = <<p3, p2, p1, p0>> an integer of
\* 54 + BitLength(p3) bits, p3 > 0; sticky says whether anything nonzero follows p
RoundLimbs(e, p, sticky) ==
    LET s == BitLength(p[1])
        lo == Pow2(s)
        hi == Limb \div lo
    IN RoundNearestEven(e, << (p[2] \div lo) + p[1] * hi,
                              (p[3] \div lo) + (p[2] % lo) * hi,
                              (p[4] \div lo) + (p[3] % lo) * hi >>,
                        sticky \/ p[4] % lo # 0)

\* long division, 9 quotient bits per step: the next n digits (base 2^9) of
\* rem/den, rem < den, and the remainder left
RECURSIVE QuotientDigits(_, _, _, _)
QuotientDigits(rem, den, n, acc) ==
    IF n = 0 THEN [digits |-> acc, rem |-> rem]
    ELSE QuotientDigits((rem * HalfLimb) % den, den, n - 1,
                        Append(acc, (rem * HalfLimb) \div den))

\* int / int (true division) for 0 < a, 0 < b, both below 2^21: the IEEE
\* division of the two (exact) floats, correctly rounded
FloatDivInt(a, b) ==
    LET la == BitLength(a)
        lb == BitLength(b)
        \* scale so that den <= num < 2*den
        a1 == IF la < lb THEN a * Pow2(lb - la) ELSE a
        den == IF lb < la THEN b * Pow2(la - lb) ELSE b
        low == a1 < den
        num == IF low THEN 2 * a1 ELSE a1
        e == la - lb + (IF low THEN 0 ELSE 1)
        \* num/den = 1.f: 54 bits of f in six digits
        d == QuotientDigits(num - den, den, 6, <<>>)
        g == d.digits
    IN RoundLimbs(e, <<1, g[1] * HalfLimb + g[2], g[3] * HalfLimb + g[4],
                       g[5] * HalfLimb + g[6]>>, d.rem # 0)

\* float * k for an integer 4 <= k < 2^12 (k is exact as a float): the exact
\* product, rounded once
FloatTimesInt(f, k) ==
    IF f = FloatZero THEN FloatZero
    ELSE LET t0 == f.m[3] * k
             t1 == f.m[2] * k + t0 \div Limb
             t2 == f.m[1] * k + t1 \div Limb
             p3 == t2 \div Limb
         IN RoundLimbs(f.e + BitLength(p3) + 1,
                       <<p3, t2 % Limb, t1 % Limb, t0 % Limb>>, FALSE)

\* the float of an integer 0 < k < 2^17
FloatOfInt(k) ==
    LET l == BitLength(k)
    IN [e |-> l, m |-> <<k * Pow2(17 - l), 0, 0>>]

\* f < g for non-negative floats
FloatLess(f, g) ==
    IF g = FloatZero THEN FALSE
    ELSE IF f = FloatZero THEN TRUE
    ELSE IF f.e # g.e THEN f.e < g.e
    ELSE IF f.m[1] # g.m[1] THEN f.m[1] < g.m[1]
    ELSE IF f.m[2] # g.m[2] THEN f.m[2] < g.m[2]
    ELSE f.m[3] < g.m[3]

-----------------------------------------------------------------------------
(* Distances.  A distance is a sum of square roots of integers; it is kept *)
(* exactly, as the bag of its terms: c copies of n stand for c * sqrt(n),  *)
(* a perfect square being folded into copies of 1 (sqrt(25) is 5 copies of *)
(* 1).  0.0 is the empty bag.  Floating-point rounding of the square root  *)
(* and of the running sum is left out.                                     *)

RECURSIVE SqrtFloor(_, _, _)
SqrtFloor(n, lo, hi) ==
    \* the r in lo..hi with r*r <= n < (r+1)*(r+1)
    IF lo = hi THEN lo
    ELSE LET mid == (lo + hi + 1) \div 2
         IN IF mid * mid <= n THEN SqrtFloor(n, mid, hi) ELSE SqrtFloor(n, lo, mid - 1)

\* the whole number k >= 0 as a distance
Whole(k) == IF k = 0 THEN EmptyBag ELSE [x \in {1} |-> k]

\* n ** 0.5 for an integer 0 <= n < 2^30
Sqrt(n) ==
    LET r == SqrtFloor(n, 0, 32767)
    IN IF r * r = n THEN Whole(r) ELSE SetToBag({n})

\* CooLex.distance
distance(position1, position2) ==
    Sqrt((position1[1] - position2[1]) * (position1[1] - position2[1])
         + (position1[2] - position2[2]) * (position1[2] - position2[2]))

-----------------------------------------------------------------------------
(* Ingredient.                                                             *)

\* Ingredient.__init__
Ingredient(name, stock, quantity, position) ==
    [name |-> name, total_stock |-> stock, stock |-> stock,
     quantity |-> quantity, position |-> position]

\* the default threshold_percentage of is_below_threshold
DefaultThreshold == 20

\* Ingredient.check_stock
check_stock(ing) == ing.stock >= ing.quantity

\* is_below_threshold with <= for <
is_below_threshold_le(ing, threshold_percentage) ==
    ing.stock < 0 \/
    ~FloatLess(FloatOfInt(threshold_percentage),
               FloatTimesInt(IF ing.stock = 0 THEN FloatZero
                             ELSE FloatDivInt(ing.stock, ing.total_stock), 100))

\* Ingredient.is_below_threshold, for total_stock > 0:
\* (stock / total_stock) * 100 < threshold_percentage, in floats; a negative
\* stock gives a negative quotient, below any threshold_percentage >= 0
is_below_threshold(ing, threshold_percentage) ==
    ing.stock < 0 \/
    FloatLess(FloatTimesInt(IF ing.stock = 0 THEN FloatZero
                            ELSE FloatDivInt(ing.stock, ing.total_stock), 100),
              FloatOfInt(threshold_percentage))

\* use() that asks only whether anything is left: stock > 0 for stock >= quantity
use_any_left(heap, id) ==
    LET ing == heap[id]
        used == [heap EXCEPT ![id].stock = ing.stock - ing.quantity]
    IN IF ing.stock > 0
       THEN [heap |-> used,
             out |-> <<[line |-> "used", name |-> ing.name, stock |-> used[id].stock]>>,
             raised |-> NotRaised]
       ELSE [heap |-> heap, out |-> <<>>,
             raised |-> [type |-> "InsufficientStockError", name |-> ing.name]]

\* use() that hands out what is left before it raises
use_drain(heap, id) ==
    LET ing == heap[id]
    IN IF ing.stock >= ing.quantity
       THEN [heap |-> [heap EXCEPT ![id].stock = ing.stock - ing.quantity],
             out |-> <<[line |-> "used", name |-> ing.name,
                        stock |-> ing.stock - ing.quantity]>>,
             raised |-> NotRaised]
       ELSE [heap |-> [heap EXCEPT ![id].stock = 0], out |-> <<>>,
             raised |-> [type |-> "InsufficientStockError", name |-> ing.name]]

\* use() that refills an exhausted ingredient before it raises
use_restock(heap, id) ==
    LET ing == heap[id]
    IN IF ing.stock >= ing.quantity
       THEN [heap |-> [heap EXCEPT ![id].stock = ing.stock - ing.quantity],
             out |-> <<[line |-> "used", name |-> ing.name,
                        stock |-> ing.stock - ing.quantity]>>,
             raised |-> NotRaised]
       ELSE [heap |-> [heap EXCEPT ![id].stock = ing.total_stock], out |-> <<>>,
             raised |-> [type |-> "InsufficientStockError", name |-> ing.name]]

\* use() that decrements first and checks afterwards
use_late_check(heap, id) ==
    LET ing == heap[id]
        used == [heap EXCEPT ![id].stock = ing.stock - ing.quantity]
    IN IF used[id].stock >= 0
       THEN [heap |-> used,
             out |-> <<[line |-> "used", name |-> ing.name, stock |-> used[id].stock]>>,
             raised |-> NotRaised]
       ELSE [heap |-> used, out |-> <<>>,
             raised |-> [type |-> "InsufficientStockError", name |-> ing.name]]

\* Ingredient.use on the object id of heap: the heap after it, what it
\* printed and what it raised
use(heap, id) ==
    LET ing == heap[id]
        used == [heap EXCEPT ![id].stock = ing.stock - ing.quantity]
    IN IF ing.stock >= ing.quantity
       THEN IF ing.total_stock = 0
            \* the stock is decremented before the percentage is printed
            THEN [heap |-> used, out |-> <<>>, raised |-> [type |-> "ZeroDivisionError"]]
            ELSE [heap |-> used,
                  out |-> <<[line |-> "used", name |-> ing.name, stock |-> used[id].stock]>>,
                  raised |-> NotRaised]
       ELSE [heap |-> heap, out |-> <<>>,
             raised |-> [type |-> "InsufficientStockError", name |-> ing.name]]

-----------------------------------------------------------------------------
(* TreeNode and the catalog tree.                                          *)

\* TreeNode.__init__ followed by the children it is given; action is the id
\* of the Ingredient whose use method is bound, or None
TreeNode(name, ingredient, action, stock_check, children) ==
    [name |-> name, ingredient |-> ingredient, action |-> action,
     stock_check |-> stock_check, children |-> children]

\* one node per ingredient of list, each with its own copy of children
NodesOf(heap, list, children) ==
    [i \in 1..Len(list) |-> TreeNode(heap[list[i]].name, list[i], list[i], TRUE, children)]

\* create_tree that puts each new node in front of its siblings
\* (insert(0, node)): every level in reverse catalog order
create_tree_reversed(heap, bowl, baseList, proteinList, toppingList, sauceList) ==
    LET Rev(l) == [i \in 1..Len(l) |-> l[Len(l) + 1 - i]]
        sauce_nodes == NodesOf(heap, Rev(sauceList), <<>>)
        topping_nodes == NodesOf(heap, Rev(toppingList), sauce_nodes)
        protein_nodes == NodesOf(heap, Rev(proteinList), topping_nodes)
        base_nodes == NodesOf(heap, Rev(baseList), protein_nodes)
        bowl_node == TreeNode("Bowl", bowl, bowl, TRUE, base_nodes)
    IN TreeNode("Start", None, None, FALSE, <<bowl_node>>)

\* CooLex.create_tree
create_tree(heap, bowl, baseList, proteinList, toppingList, sauceList) ==
    LET sauce_nodes == NodesOf(heap, sauceList, <<>>)
        topping_nodes == NodesOf(heap, toppingList, sauce_nodes)
        protein_nodes == NodesOf(heap, proteinList, topping_nodes)
        base_nodes == NodesOf(heap, baseList, protein_nodes)
        bowl_node == TreeNode("Bowl", bowl, bowl, TRUE, base_nodes)
    IN TreeNode("Start", None, None, FALSE, <<bowl_node>>)

\* the node reached from node by the child positions of path
RECURSIVE NodeAt(_, _)
NodeAt(node, path) ==
    IF path = <<>> THEN node ELSE NodeAt(node.children[Head(path)], Tail(path))

-----------------------------------------------------------------------------
(* CooLex.                                                                 *)

\* CooLex.__init__: the fixed positions
initial_position == <<310, 310>>
bowl_dispenser_position == <<650, 660>>
final_position == <<410, 610>>

\* move_to that leaves current_position where it was
move_to_stay(st, name, position) ==
    [st EXCEPT !.total_distance = @ (+) distance(st.current_position, position),
               !.out = @ \o <<[line |-> "Moving to", name |-> name],
                              [line |-> "Moving from", from |-> st.current_position,
                               to |-> position]>>]

\* CooLex.move_to, on the part of the state a call works on:
\* st = [heap, current_position, total_distance, current_node, out, raised]
move_to(st, name, position) ==
    [st EXCEPT !.total_distance = @ (+) distance(st.current_position, position),
               !.out = @ \o <<[line |-> "Moving to", name |-> name],
                              [line |-> "Moving from", from |-> st.current_position,
                               to |-> position]>>,
               !.current_position = position]

\* CooLex.alert_stock
alert_stock(st, ingredient_name) ==
    [st EXCEPT !.out = Append(@, [line |-> "Alert", name |-> ingredient_name])]

\* traverse_and_prepare that looks at the threshold before the action: the
\* alert is decided on the stock as it was before the consumption
traverse_and_prepare_alert_before(st, tree, next_node) ==
    LET node == NodeAt(tree, next_node)
        moved == move_to(st, st.heap[node.ingredient].name, st.heap[node.ingredient].position)
        low == node.stock_check /\ is_below_threshold(moved.heap[node.ingredient], DefaultThreshold)
        u == use(moved.heap, node.action)
        acted == [moved EXCEPT !.heap = u.heap, !.out = @ \o u.out, !.raised = u.raised]
    IN IF u.raised # NotRaised THEN acted
       ELSE [(IF low THEN alert_stock(acted, acted.heap[node.ingredient].name) ELSE acted)
             EXCEPT !.current_node = next_node]

\* traverse_and_prepare that calls the action before it moves: a failed
\* consumption leaves the head where it was
traverse_and_prepare_use_first(st, tree, next_node) ==
    LET node == NodeAt(tree, next_node)
        u == use(st.heap, node.action)
        acted == [st EXCEPT !.heap = u.heap, !.out = @ \o u.out, !.raised = u.raised]
        moved == move_to(acted, st.heap[node.ingredient].name, st.heap[node.ingredient].position)
    IN IF u.raised # NotRaised THEN acted
       ELSE [(IF node.stock_check
                 /\ is_below_threshold(moved.heap[node.ingredient], DefaultThreshold)
              THEN alert_stock(moved, moved.heap[node.ingredient].name)
              ELSE moved)
             EXCEPT !.current_node = next_node]

\* traverse_and_prepare that alerts only for the consumption that takes the
\* stock below the threshold, not for the ones after it
traverse_and_prepare_alert_once(st, tree, next_node) ==
    LET node == NodeAt(tree, next_node)
        moved == move_to(st, st.heap[node.ingredient].name, st.heap[node.ingredient].position)
        was_low == is_below_threshold(moved.heap[node.ingredient], DefaultThreshold)
        u == use(moved.heap, node.action)
        acted == [moved EXCEPT !.heap = u.heap, !.out = @ \o u.out, !.raised = u.raised]
    IN IF u.raised # NotRaised THEN acted
       ELSE [(IF /\ node.stock_check
                 /\ ~was_low
                 /\ is_below_threshold(acted.heap[node.ingredient], DefaultThreshold)
              THEN alert_stock(acted, acted.heap[node.ingredient].name)
              ELSE acted)
             EXCEPT !.current_node = next_node]

\* CooLex.traverse_and_prepare; next_node is the path of the node from tree
traverse_and_prepare(st, tree, next_node) ==
    LET node == NodeAt(tree, next_node)
    IN IF node.action # None /\ node.ingredient # None
       THEN LET moved == move_to(st, st.heap[node.ingredient].name,
                                 st.heap[node.ingredient].position)
                u == use(moved.heap, node.action)
                acted == [moved EXCEPT !.heap = u.heap, !.out = @ \o u.out,
                                       !.raised = u.raised]
            IN IF u.raised # NotRaised THEN acted
               ELSE [(IF node.stock_check
                         /\ is_below_threshold(acted.heap[node.ingredient], DefaultThreshold)
                      THEN alert_stock(acted, acted.heap[node.ingredient].name)
                      ELSE acted)
                     EXCEPT !.current_node = next_node]
       ELSE [st EXCEPT !.current_node = next_node]

\* reset that only goes back to the root: the head stays where the last
\* order left it and the distance goes on from there
reset_node_only(st) == [st EXCEPT !.current_node = <<>>]

\* CooLex.reset
reset(st) ==
    [st EXCEPT !.current_position = initial_position,
               !.current_node = <<>>,
               !.total_distance = EmptyBag]

\* the loop of prepare_bowl with the exception caught inside the loop: the
\* later nodes are still visited, the first exception is raised at the end
RECURSIVE TraversePath_on(_, _, _)
TraversePath_on(st, tree, path) ==
    IF path = <<>> THEN st
    ELSE LET next == traverse_and_prepare([st EXCEPT !.raised = NotRaised], tree, Head(path))
             rest == TraversePath_on(next, tree, Tail(path))
         IN IF st.raised # NotRaised THEN [rest EXCEPT !.raised = st.raised] ELSE rest

\* the loop of prepare_bowl over path, left at the first exception
RECURSIVE TraversePath(_, _, _)
TraversePath(st, tree, path) ==
    IF path = <<>> \/ st.raised # NotRaised THEN st
    ELSE TraversePath(traverse_and_prepare(st, tree, Head(path)), tree, Tail(path))

IndexError == [type |-> "IndexError"]

\* whether the lookups of base_index, protein_index, the indices of order and
\* sauce_index in tree all find a node
LookupsResolve(tree, base_index, protein_index, order, sauce_index) ==
    LET base_list == tree.children[1].children
        protein_list == base_list[ListPos(base_list, base_index)].children
        topping_list == protein_list[ListPos(protein_list, protein_index)].children
        sauce_list == topping_list[ListPos(topping_list, order[1])].children
    IN /\ IndexInRange(base_list, base_index)
       /\ IndexInRange(protein_list, protein_index)
       /\ \A k \in 1..Len(order) : IndexInRange(topping_list, order[k])
       /\ order # <<>>
       /\ IndexInRange(sauce_list, sauce_index)

\* the nodes those lookups find: base, protein, one topping per index of order
\* in the order of order, sauce under the first of them
LookedUp(tree, base_index, protein_index, order, sauce_index) ==
    LET base_list == tree.children[1].children
        base_node == <<1, ListPos(base_list, base_index)>>
        protein_list == NodeAt(tree, base_node).children
        protein_node == Append(base_node, ListPos(protein_list, protein_index))
        topping_list == NodeAt(tree, protein_node).children
        topping_nodes == [k \in 1..Len(order) |->
                             Append(protein_node, ListPos(topping_list, order[k]))]
        sauce_list == NodeAt(tree, topping_nodes[1]).children
    IN <<base_node, protein_node>> \o topping_nodes
       \o <<Append(topping_nodes[1], ListPos(sauce_list, sauce_index))>>

\* every node below node, parents before children, children in list order
RECURSIVE Preorder(_, _)
Preorder(node, at) ==
    LET below == [k \in 1..Len(node.children) |-> Preorder(node.children[k], Append(at, k))]
        Flat[k \in 0..Len(below)] == IF k = 0 THEN <<>> ELSE Flat[k - 1] \o below[k]
    IN (IF at = <<>> THEN <<>> ELSE <<at>>) \o Flat[Len(below)]

\* the resolution whose path is discarded for the whole tree below the Bowl node
ResolvePath_whole_tree(tree, base_index, protein_index, topping_indices, sauce_index) ==
    LET sorted == SortReverse(topping_indices)
    IN IF LookupsResolve(tree, base_index, protein_index, sorted, sauce_index)
       THEN [path |-> Preorder(tree.children[1], <<1>>) , topping_indices |-> sorted,
             raised |-> NotRaised]
       ELSE [path |-> <<>>, topping_indices |-> sorted, raised |-> IndexError]

\* the resolution without the sort: the toppings in the order they were listed
ResolvePath_unsorted(tree, base_index, protein_index, topping_indices, sauce_index) ==
    IF LookupsResolve(tree, base_index, protein_index, topping_indices, sauce_index)
    THEN [path |-> LookedUp(tree, base_index, protein_index, topping_indices, sauce_index),
          topping_indices |-> topping_indices, raised |-> NotRaised]
    ELSE [path |-> <<>>, topping_indices |-> topping_indices, raised |-> IndexError]

\* the resolution whose path starts at the Bowl node
ResolvePath_with_bowl(tree, base_index, protein_index, topping_indices, sauce_index) ==
    LET sorted == SortReverse(topping_indices)
    IN IF LookupsResolve(tree, base_index, protein_index, sorted, sauce_index)
       THEN [path |-> <<(<<1>>)>> \o LookedUp(tree, base_index, protein_index, sorted, sauce_index),
             topping_indices |-> sorted, raised |-> NotRaised]
       ELSE [path |-> <<>>, topping_indices |-> sorted, raised |-> IndexError]

\* the resolution that leaves the sauce out when there is no topping
ResolvePath_no_sauce_when_empty(tree, base_index, protein_index, topping_indices, sauce_index) ==
    LET sorted == SortReverse(topping_indices)
        base_list == tree.children[1].children
        base_node == <<1, ListPos(base_list, base_index)>>
        protein_list == NodeAt(tree, base_node).children
    IN IF sorted = <<>>
       THEN IF /\ IndexInRange(base_list, base_index)
               /\ IndexInRange(protein_list, protein_index)
            THEN [path |-> <<base_node,
                             Append(base_node, ListPos(protein_list, protein_index))>>,
                  topping_indices |-> sorted, raised |-> NotRaised]
            ELSE [path |-> <<>>, topping_indices |-> sorted, raised |-> IndexError]
       ELSE IF LookupsResolve(tree, base_index, protein_index, sorted, sauce_index)
       THEN [path |-> LookedUp(tree, base_index, protein_index, sorted, sauce_index),
             topping_indices |-> sorted, raised |-> NotRaised]
       ELSE [path |-> <<>>, topping_indices |-> sorted, raised |-> IndexError]

\* the resolution that sorts a copy, sorted(topping_indices), and leaves the
\* caller's list as it was
ResolvePath_sorted_copy(tree, base_index, protein_index, topping_indices, sauce_index) ==
    LET sorted == SortReverse(topping_indices)
    IN IF LookupsResolve(tree, base_index, protein_index, sorted, sauce_index)
       THEN [path |-> LookedUp(tree, base_index, protein_index, sorted, sauce_index),
             topping_indices |-> topping_indices, raised |-> NotRaised]
       ELSE [path |-> <<>>, topping_indices |-> topping_indices, raised |-> IndexError]

\* the resolution with one sauce node per topping: after each topping node
\* comes its own child for sauce_index
ResolvePath_sauce_each(tree, base_index, protein_index, topping_indices, sauce_index) ==
    LET base_list == tree.children[1].children
        base_node == <<1, ListPos(base_list, base_index)>>
        protein_list == NodeAt(tree, base_node).children
        protein_node == Append(base_node, ListPos(protein_list, protein_index))
        sorted == SortReverse(topping_indices)
        topping_list == NodeAt(tree, protein_node).children
        topping_nodes == [k \in 1..Len(sorted) |->
                             Append(protein_node, ListPos(topping_list, sorted[k]))]
        sauce_list == NodeAt(tree, topping_nodes[1]).children
        with_sauce == [k \in 1..(2 * Len(sorted)) |->
                          IF k % 2 = 1 THEN topping_nodes[(k + 1) \div 2]
                          ELSE Append(topping_nodes[k \div 2], ListPos(sauce_list, sauce_index))]
    IN IF \/ ~IndexInRange(base_list, base_index)
          \/ ~IndexInRange(protein_list, protein_index)
       THEN [path |-> <<>>, topping_indices |-> topping_indices, raised |-> IndexError]
       ELSE IF \/ \E k \in 1..Len(sorted) : ~IndexInRange(topping_list, sorted[k])
               \/ sorted = <<>>
               \/ ~IndexInRange(sauce_list, sauce_index)
       THEN [path |-> <<>>, topping_indices |-> sorted, raised |-> IndexError]
       ELSE [path |-> <<base_node, protein_node>> \o with_sauce,
             topping_indices |-> sorted, raised |-> NotRaised]

\* lines 105-111 of prepare_bowl: the path of the selection (each node as its
\* path from the root), the topping_indices list as the lookups leave it, and
\* what was raised
ResolvePath(tree, base_index, protein_index, topping_indices, sauce_index) ==
    LET base_list == tree.children[1].children
        base_node == <<1, ListPos(base_list, base_index)>>
        protein_list == NodeAt(tree, base_node).children
        protein_node == Append(base_node, ListPos(protein_list, protein_index))
        sorted == SortReverse(topping_indices)
        topping_list == NodeAt(tree, protein_node).children
        topping_nodes == [k \in 1..Len(sorted) |->
                             Append(protein_node, ListPos(topping_list, sorted[k]))]
        sauce_list == NodeAt(tree, topping_nodes[1]).children
        sauce_node == Append(topping_nodes[1], ListPos(sauce_list, sauce_index))
    IN IF ~IndexInRange(base_list, base_index)
       THEN [path |-> <<>>, topping_indices |-> topping_indices, raised |-> IndexError]
       ELSE IF ~IndexInRange(protein_list, protein_index)
       THEN [path |-> <<>>, topping_indices |-> topping_indices, raised |-> IndexError]
       ELSE IF \E k \in 1..Len(sorted) : ~IndexInRange(topping_list, sorted[k])
       THEN [path |-> <<>>, topping_indices |-> sorted, raised |-> IndexError]
       ELSE IF sorted = <<>>
       THEN [path |-> <<>>, topping_indices |-> sorted, raised |-> IndexError]
       ELSE IF ~IndexInRange(sauce_list, sauce_index)
       THEN [path |-> <<>>, topping_indices |-> sorted, raised |-> IndexError]
       ELSE [path |-> <<base_node, protein_node>> \o topping_nodes \o <<sauce_node>>,
             topping_indices |-> sorted, raised |-> NotRaised]

\* prepare_bowl that looks each node up when it gets to it: the base is
\* visited before the indices after it are resolved
prepare_bowl_base_first(st, tree, base_index, protein_index, topping_indices, sauce_index) ==
    LET st0 == reset(st)
        r == ResolvePath(tree, base_index, protein_index, topping_indices, sauce_index)
        base_list == tree.children[1].children
        st1 == move_to(st0, "Bowl Dispenser", bowl_dispenser_position)
        stb == traverse_and_prepare(st1, tree, <<1, ListPos(base_list, base_index)>>)
        st2 == TraversePath(st1, tree, r.path)
        st3 == move_to(st2, "Final Position", final_position)
    IN IF ~IndexInRange(base_list, base_index)
       THEN [st |-> [st0 EXCEPT !.raised = r.raised], topping_indices |-> r.topping_indices]
       ELSE IF r.raised # NotRaised
       THEN [st |-> IF stb.raised # NotRaised THEN stb ELSE [stb EXCEPT !.raised = r.raised],
             topping_indices |-> r.topping_indices]
       ELSE IF st2.raised # NotRaised
       THEN [st |-> st2, topping_indices |-> r.topping_indices]
       ELSE [st |-> st3, topping_indices |-> r.topping_indices]

\* CooLex.prepare_bowl: the state it leaves, the list topping_indices as it
\* leaves it, and in raised the exception, NotRaised when it returns
prepare_bowl(st, tree, base_index, protein_index, topping_indices, sauce_index) ==
    LET st0 == reset(st)
        r == ResolvePath(tree, base_index, protein_index, topping_indices, sauce_index)
        st1 == move_to(st0, "Bowl Dispenser", bowl_dispenser_position)
        st2 == TraversePath(st1, tree, r.path)
        st3 == move_to(st2, "Final Position", final_position)
    IN IF r.raised # NotRaised
       THEN [st |-> [st0 EXCEPT !.raised = r.raised], topping_indices |-> r.topping_indices]
       ELSE IF st2.raised # NotRaised
       THEN [st |-> st2, topping_indices |-> r.topping_indices]
       ELSE [st |-> st3, topping_indices |-> r.topping_indices]

-----------------------------------------------------------------------------
(* The catalogs an instance is built from: what main() hands to CooLex.    *)

\* the scenarios of the specification: a base that lasts one order, an
\* ingredient of 100 units used 20 at a time, two stations 5 apart
ScenarioCatalog ==
    [bowls    |-> Ingredient("bowls", 1, 1, <<650, 660>>),
     bases    |-> <<Ingredient("Rice", 250, 250, <<0, 0>>)>>,
     proteins |-> <<Ingredient("Chicken", 200, 200, <<3, 4>>)>>,
     toppings |-> <<Ingredient("Tomato", 100, 20, <<140, 10>>)>>,
     sauces   |-> <<Ingredient("Cream", 75, 75, <<10, 10>>)>>]

\* main()'s catalog cut down to two entries per category and to stocks that
\* last an order or two; some stocks are no multiple of the quantity, some
\* ingredients start out of stock
MainCatalog ==
    [bowls    |-> Ingredient("bowls", 0, 1, <<650, 660>>),
     bases    |-> <<Ingredient("Arros", 500, 250, <<610, 10>>),
                    Ingredient("Quinoa", 100, 250, <<670, 10>>)>>,
     proteins |-> <<Ingredient("Pollastre", 300, 200, <<450, 10>>),
                    Ingredient("Salmo", 0, 200, <<570, 10>>)>>,
     toppings |-> <<Ingredient("Nous", 100, 100, <<230, 10>>),
                    Ingredient("Carbassa", 100, 100, <<410, 10>>)>>,
     sauces   |-> <<Ingredient("Remolatxa", 150, 75, <<40, 10>>),
                    Ingredient("Chimichurri", 75, 75, <<100, 10>>)>>]

\* a catalog that lasts four orders, with one bowl only and a topping used 10
\* at a time out of 60: it can be consumed twice more once it is below 20%
LongCatalog ==
    [bowls    |-> Ingredient("bowls", 1, 1, <<650, 660>>),
     bases    |-> <<Ingredient("Arros", 1000, 250, <<610, 10>>)>>,
     proteins |-> <<Ingredient("Pollastre", 800, 200, <<450, 10>>)>>,
     toppings |-> <<Ingredient("Tomaquet", 60, 10, <<140, 10>>),
                    Ingredient("Nous", 200, 100, <<230, 10>>)>>,
     sauces   |-> <<Ingredient("Crema", 300, 75, <<10, 10>>)>>]

Catalogs == {ScenarioCatalog, MainCatalog}

\* ids of the Ingredient objects of list, the objects before them being 1..first
IdsFrom(first, list) == [i \in 1..Len(list) |-> first + i]

-----------------------------------------------------------------------------
(* The state machine: a caller that calls, looks at what the call left,    *)
(* and goes on to the next call, as main()'s loop does.                    *)

NoCall == [op |-> "none"]
NoResult == [type |-> "none"]

\* CooLex.__init__ on a catalog
InitWith(cat) ==
    LET nb == Len(cat.bases)
        np == Len(cat.proteins)
        nt == Len(cat.toppings)
    IN /\ ingredients = <<cat.bowls>> \o cat.bases \o cat.proteins \o cat.toppings \o cat.sauces
       /\ bowls = 1
       /\ bases = IdsFrom(1, cat.bases)
       /\ proteins = IdsFrom(1 + nb, cat.proteins)
       /\ toppings = IdsFrom(1 + nb + np, cat.toppings)
       /\ sauces = IdsFrom(1 + nb + np + nt, cat.sauces)
       /\ root = create_tree(ingredients, bowls, bases, proteins, toppings, sauces)
       /\ current_position = initial_position
       /\ total_distance = EmptyBag
       /\ current_node = NoNode
       /\ call = NoCall
       /\ result = NoResult
       /\ out = <<>>
       /\ previous = NoResult

Init == \E cat \in Catalogs : InitWith(cat)

\* the state a call works on
Self ==
    [heap |-> ingredients, current_position |-> current_position,
     total_distance |-> total_distance, current_node |-> current_node,
     out |-> <<>>, raised |-> NotRaised]

\* a call of cooLex.prepare_bowl(base_index, protein_index, topping_indices, sauce_index)
PrepareBowl(base_index, protein_index, topping_indices, sauce_index) ==
    /\ call = NoCall
    /\ \E r \in {prepare_bowl(Self, root, base_index, protein_index, topping_indices,
                              sauce_index)} :
          /\ ingredients' = r.st.heap
          /\ current_position' = r.st.current_position
          /\ total_distance' = r.st.total_distance
          /\ current_node' = r.st.current_node
          /\ out' = r.st.out
          /\ result' = IF r.st.raised # NotRaised THEN r.st.raised
                       ELSE [type |-> "str", distance |-> r.st.total_distance]
          /\ call' = [op |-> "prepare_bowl", base_index |-> base_index,
                      protein_index |-> protein_index,
                      topping_indices |-> topping_indices, sauce_index |-> sauce_index,
                      left |-> r.topping_indices, before |-> ingredients,
                      position_before |-> current_position,
                      distance_before |-> total_distance]
    /\ UNCHANGED <<catalogVars, previous>>

\* a call of ingredient.use() on the Ingredient object id
Use(id) ==
    /\ call = NoCall
    /\ \E u \in {use(ingredients, id)} :
          /\ ingredients' = u.heap
          /\ out' = u.out
          /\ result' = IF u.raised # NotRaised THEN u.raised ELSE [type |-> "None"]
          /\ call' = [op |-> "use", id |-> id, before |-> ingredients]
    /\ UNCHANGED <<catalogVars, current_position, total_distance, current_node, previous>>

\* main()'s loop goes round: the result and the printed lines have been
\* shown, the selection is dropped, the next call can be made
Continue ==
    /\ call # NoCall
    /\ previous' = [type |-> IF call.op = "prepare_bowl" THEN result.type ELSE previous.type]
    /\ call' = NoCall
    /\ result' = NoResult
    /\ out' = <<>>
    /\ UNCHANGED <<catalogVars, ingredients, current_position, total_distance, current_node>>

\* topping_indices lists of up to n indices from S
RECURSIVE ListsUpTo(_, _)
ListsUpTo(S, n) ==
    IF n = 0 THEN {<<>>}
    ELSE LET shorter == ListsUpTo(S, n - 1)
         IN shorter \cup {Append(l, x) : l \in {m \in shorter : Len(m) = n - 1}, x \in S}

\* the indices main() can pass for list: choose_option returns 0..len-1
Indices(list) == 0..(Len(list) - 1)
\* any index for list: below -len, negative, in range, past the end
WideIndices(list) == -(Len(list) + 1)..Len(list)

Order ==
    \E b \in Indices(bases), p \in Indices(proteins), s \in Indices(sauces) :
        \E t \in ListsUpTo(Indices(toppings), MaxToppings) : PrepareBowl(b, p, t, s)

WideOrder ==
    \E b \in WideIndices(bases), p \in WideIndices(proteins), s \in WideIndices(sauces) :
        \E t \in ListsUpTo(WideIndices(toppings), MaxWideToppings) : PrepareBowl(b, p, t, s)

UseAny == \E id \in 1..Len(ingredients) : Use(id)

Next == Order \/ UseAny \/ Continue

\* orders with the indices main() can pass and any number of toppings up to
\* MaxToppings, and direct use() calls
Spec == Init /\ [][Next]_vars

InitIdx == InitWith(ScenarioCatalog)

NextIdx == WideOrder \/ Continue

\* orders with any index, on the one-entry-per-category catalog
SpecIdx == InitIdx /\ [][NextIdx]_vars

InitOrders == InitWith(LongCatalog)

NextOrders == Order \/ Continue

\* orders only, as main() makes them, on the catalog that lasts four orders
SpecOrders == InitOrders /\ [][NextOrders]_vars

\* an instance whose only ingredient is its bowls: any stock, any quantity
InitLedger ==
    \E stock \in 0..MaxStock, quantity \in 1..MaxQuantity :
        InitWith([bowls |-> Ingredient("bowls", stock, quantity, <<650, 660>>),
                  bases |-> <<>>, proteins |-> <<>>, toppings |-> <<>>, sauces |-> <<>>])

NextLedger == UseAny \/ Continue

\* use() calls on one ingredient, of any stock and quantity
SpecLedger == InitLedger /\ [][NextLedger]_vars

-----------------------------------------------------------------------------
(* What the claims speak of.                                               *)

IsOrder == call.op = "prepare_bowl"
IsUse == call.op = "use"
Failures == {"InsufficientStockError", "IndexError"}

\* i is one of 0..len-1 of list
InBounds(list, i) == 0 <= i /\ i < Len(list)

\* every index of the last order is within 0..len-1 of its list
SelectionInBounds ==
    /\ InBounds(bases, call.base_index)
    /\ InBounds(proteins, call.protein_index)
    /\ \A k \in 1..Len(call.topping_indices) : InBounds(toppings, call.topping_indices[k])
    /\ InBounds(sauces, call.sauce_index)

\* the last call is an order that names at least one topping, all in bounds
Resolvable == IsOrder /\ SelectionInBounds /\ call.topping_indices # <<>>

\* how often x occurs among the first n entries of seq
Occurrences(seq, x, n) == Cardinality({k \in 1..n : seq[k] = x})

\* t in descending order
Descending(t) ==
    CHOOSE q \in [1..Len(t) -> {t[k] : k \in 1..Len(t)}] :
        /\ \A k \in 1..(Len(t) - 1) : q[k] >= q[k + 1]
        /\ \A x \in {t[k] : k \in 1..Len(t)} : Occurrences(q, x, Len(t)) = Occurrences(t, x, Len(t))

\* the ingredients of the last order in the order they are visited: base,
\* protein, the toppings by descending index, sauce
Traversal ==
    LET d == Descending(call.topping_indices)
    IN <<bases[call.base_index + 1], proteins[call.protein_index + 1]>>
       \o [k \in 1..Len(d) |-> toppings[d[k] + 1]]
       \o <<sauces[call.sauce_index + 1]>>

\* the ingredient id as the first n visits of seq leave it
AfterVisits(seq, id, n) ==
    [call.before[id] EXCEPT
        !.stock = @ - call.before[id].quantity * Occurrences(seq, id, n)]

\* the first position of seq whose ingredient is short when it is reached, 0 if none
FirstShort(seq) ==
    LET short == {k \in 1..Len(seq) :
                     AfterVisits(seq, seq[k], k - 1).stock < call.before[seq[k]].quantity}
    IN IF short = {} THEN 0 ELSE CHOOSE k \in short : \A j \in short : k <= j

\* the "used" lines the last call printed, in order
UsedLines == SelectSeq(out, LAMBDA l : l.line = "used")

\* how many "used" lines the last call printed for the ingredient id
TimesUsed(id) ==
    Cardinality({k \in 1..Len(UsedLines) : UsedLines[k].name = ingredients[id].name})

\* the length of the route through points
RECURSIVE RouteLength(_)
RouteLength(points) ==
    IF Len(points) < 2 THEN EmptyBag
    ELSE distance(points[1], points[2]) (+) RouteLength(Tail(points))

\* the stations of the last order: start, dispenser, the ingredients, end
Route ==
    <<initial_position, bowl_dispenser_position>>
    \o [k \in 1..Len(Traversal) |-> ingredients[Traversal[k]].position]
    \o <<final_position>>

-----------------------------------------------------------------------------
(* The claims.                                                             *)

\* C1: every ingredient, created with quantity > 0 and stock = total_stock
\* >= 0, has 0 <= stock <= total_stock after any sequence of use() calls and
\* of orders, successful or failed.
C1_StockWithinBounds ==
    \A id \in DOMAIN ingredients :
        /\ ingredients[id].quantity > 0
        /\ 0 <= ingredients[id].stock
        /\ ingredients[id].stock <= ingredients[id].total_stock

\* an order has just failed for lack of stock and an ingredient is left with
\* a remainder too small to use
C1_Witness ==
    /\ IsOrder
    /\ result.type = "InsufficientStockError"
    /\ previous.type = "str"
    /\ \E id \in DOMAIN ingredients :
          0 < ingredients[id].stock /\ ingredients[id].stock < ingredients[id].quantity

\* C2: use() on an ingredient with stock >= quantity takes exactly quantity off
\* its stock and succeeds; with stock < quantity it raises
\* InsufficientStockError naming the ingredient and changes no field of any
\* ingredient.
C2_UseContract ==
    IsUse =>
        LET b == call.before[call.id]
        IN IF b.stock >= b.quantity
           THEN /\ result.type = "None"
                /\ ingredients = [call.before EXCEPT ![call.id].stock = b.stock - b.quantity]
           ELSE /\ result = [type |-> "InsufficientStockError", name |-> b.name]
                /\ ingredients = call.before

\* use() has just failed on an ingredient that still holds some stock
C2_Witness ==
    /\ IsUse
    /\ result.type = "InsufficientStockError"
    /\ call.before[call.id].stock > 0
    /\ Len(ingredients) > 1

\* C3: an order that fails on an index fails before anything is consumed:
\* every ingredient is as it was before the call, whichever index is the
\* invalid one.
C3_IndexErrorBeforeConsumption ==
    (IsOrder /\ result.type = "IndexError") => ingredients = call.before

\* the sauce index, the last one resolved, is the invalid one, and everything
\* selected before it was in stock
C3_Witness ==
    /\ IsOrder
    /\ result.type = "IndexError"
    /\ InBounds(bases, call.base_index)
    /\ InBounds(proteins, call.protein_index)
    /\ call.topping_indices # <<>>
    /\ \A k \in 1..Len(call.topping_indices) : InBounds(toppings, call.topping_indices[k])
    /\ ~IndexInRange(sauces, call.sauce_index)
    /\ check_stock(call.before[bases[call.base_index + 1]])
    /\ check_stock(call.before[proteins[call.protein_index + 1]])

\* C4: an order fails with an index error whenever one of its indices is
\* outside 0..len-1 of its list, negative indices included; no such selection
\* is prepared.
C4_OutOfBoundsFails ==
    (IsOrder /\ ~SelectionInBounds) => result.type = "IndexError"

\* C5: when the k-th ingredient of the traversal is short of stock as it is
\* reached, the order stops there with InsufficientStockError naming it: the
\* visits before k keep their effect, the k-th ingredient is not decremented
\* by its failed use, nothing after k is consumed.
C5_AbortAtFirstShortage ==
    Resolvable =>
        LET k == FirstShort(Traversal)
        IN k > 0 =>
              /\ result = [type |-> "InsufficientStockError",
                           name |-> ingredients[Traversal[k]].name]
              /\ \A id \in DOMAIN ingredients :
                    ingredients[id] = AfterVisits(Traversal, id, k - 1)
              /\ Len(UsedLines) = k - 1
              /\ \A j \in 1..(k - 1) : UsedLines[j].name = ingredients[Traversal[j]].name

\* the order stopped at its third ingredient or later, on an ingredient it
\* had itself consumed earlier, with ingredients still to come
C5_Witness ==
    /\ Resolvable
    /\ result.type = "InsufficientStockError"
    /\ LET k == FirstShort(Traversal)
       IN /\ k >= 3
          /\ k < Len(Traversal)
          /\ Occurrences(Traversal, Traversal[k], k - 1) >= 1
          /\ check_stock(call.before[Traversal[k + 1]])

\* C6: for an ingredient with total_stock > 0, at every stock it can reach,
\* is_below_threshold(20.0) is true exactly when stock*100 < total_stock*20;
\* with total_stock 100 and quantity 20 it is false at stock 20 (after the 4th
\* use) and true at stock 0 (after the 5th).
C6_ThresholdIsExact ==
    \A id \in DOMAIN ingredients :
        LET ing == ingredients[id]
        IN ing.total_stock > 0 =>
              /\ is_below_threshold(ing, 20) <=> (ing.stock * 100 < ing.total_stock * 20)
              /\ (ing.total_stock = 100 /\ ing.quantity = 20 /\ ing.stock = 20)
                    => ~is_below_threshold(ing, 20)
              /\ (ing.total_stock = 100 /\ ing.quantity = 20 /\ ing.stock = 0)
                    => is_below_threshold(ing, 20)

\* the 4th use of an ingredient of 100 units, 20 at a time, has just succeeded
C6_Witness ==
    /\ IsUse
    /\ result.type = "None"
    /\ ingredients[call.id].total_stock = 100
    /\ ingredients[call.id].quantity = 20
    /\ ingredients[call.id].stock = 20
    /\ ~is_below_threshold(ingredients[call.id], 20)

\* C7: the distance a successful order reports is the sum of the Euclidean
\* distances between consecutive stations of its route: the initial position,
\* the Bowl Dispenser, each ingredient of the traversal in order, the final
\* position; from (0,0) to (3,4) is exactly 5.
C7_DistanceIsRouteLength ==
    /\ distance(<<0, 0>>, <<3, 4>>) = Whole(5)
    /\ (IsOrder /\ result.type = "str") =>
          /\ result.distance = RouteLength(Route)
          /\ total_distance = result.distance

\* a successful order with two toppings or more went from a base at (0,0) to
\* a protein at (3,4)
C7_Witness ==
    /\ IsOrder
    /\ result.type = "str"
    /\ Len(call.topping_indices) >= 2
    /\ ingredients[Traversal[1]].position = <<0, 0>>
    /\ ingredients[Traversal[2]].position = <<3, 4>>

\* C8: no stock ever goes up, so an ingredient short of stock stays short
\* and every later order that selects it fails with InsufficientStockError;
\* a base that one order emptied makes the next order that selects it fail
\* with InsufficientStockError naming that base.
C8_NoRestock ==
    /\ [][\A id \in DOMAIN ingredients :
             ingredients'[id].stock <= ingredients[id].stock]_vars
    /\ [](Resolvable =>
            /\ (\E k \in 1..Len(Traversal) : ~check_stock(call.before[Traversal[k]]))
                  => result.type = "InsufficientStockError"
            /\ ~check_stock(call.before[Traversal[1]])
                  => result = [type |-> "InsufficientStockError",
                               name |-> ingredients[Traversal[1]].name])

\* the order before succeeded and left the base of 250 units, used 250 at a
\* time, at 0; this order selected it again and failed naming it
C8_Witness ==
    /\ Resolvable
    /\ previous.type = "str"
    /\ call.before[Traversal[1]].total_stock = 250
    /\ call.before[Traversal[1]].quantity = 250
    /\ call.before[Traversal[1]].stock = 0
    /\ result = [type |-> "InsufficientStockError", name |-> ingredients[Traversal[1]].name]

\* C9: a failed order is fatal to that order only: further orders are
\* accepted, the next order whose ingredients all have the stock for their
\* number of uses succeeds, and all a failed order changes of the
\* ingredients is the stock its successful uses took.
C9_FailureIsLocal ==
    /\ (call = NoCall /\ previous.type \in Failures) => ENABLED Order
    /\ (Resolvable /\ previous.type \in Failures /\ FirstShort(Traversal) = 0)
          => result.type = "str"
    /\ (IsOrder /\ result.type \in Failures) =>
          \A id \in DOMAIN ingredients :
              ingredients[id] =
                  [call.before[id] EXCEPT !.stock = @ - call.before[id].quantity * TimesUsed(id)]

\* an order has succeeded right after one that failed for lack of stock
C9_Witness ==
    /\ IsOrder
    /\ previous.type = "InsufficientStockError"
    /\ result.type = "str"

\* C10: a successful order with at least one topping takes from the base
\* its quantity, from the protein its quantity, from each topping its
\* quantity times its number of occurrences in the list, from the sauce its
\* quantity once, and leaves every other ingredient as it was.
C10_ConsumptionOfSelection ==
    (IsOrder /\ result.type = "str" /\ call.topping_indices # <<>>) =>
        LET t == call.topping_indices
            selected == <<bases[call.base_index + 1], proteins[call.protein_index + 1]>>
                        \o [k \in 1..Len(t) |-> toppings[t[k] + 1]]
                        \o <<sauces[call.sauce_index + 1]>>
        IN \A id \in DOMAIN ingredients :
              ingredients[id] = AfterVisits(selected, id, Len(selected))

\* a successful order named the same topping twice
C10_Witness ==
    /\ IsOrder
    /\ result.type = "str"
    /\ \E i, j \in 1..Len(call.topping_indices) :
          i # j /\ call.topping_indices[i] = call.topping_indices[j]

\* the lines of kind the last call printed, in order
LinesOf(kind) == SelectSeq(out, LAMBDA l : l.line = kind)

\* the ingredients the last order selected
Selected == IF Resolvable THEN {Traversal[k] : k \in 1..Len(Traversal)} ELSE {}

\* the ingredients of the catalog lists
Catalog ==
    {bases[k] : k \in 1..Len(bases)} \cup {proteins[k] : k \in 1..Len(proteins)}
    \cup {toppings[k] : k \in 1..Len(toppings)} \cup {sauces[k] : k \in 1..Len(sauces)}

\* C11 as stated: every order moves to and consumes every base, every
\* protein, every topping and every sauce of the catalog, whatever was
\* selected.
C11_WholeTreeTraversed ==
    (Resolvable /\ result.type = "str") =>
        \A id \in Catalog :
            /\ \E k \in 1..Len(out) :
                  out[k].line = "Moving to" /\ out[k].name = ingredients[id].name
            /\ ingredients[id].stock < call.before[id].stock

\* C11, amended: an order moves to and consumes the ingredients of its
\* resolved selection only: every station it moves to is the Bowl Dispenser,
\* the Final Position or a selected ingredient, every consumption is of a
\* selected ingredient, and every ingredient not selected is left as it was.
C11_OnlySelectionTraversed ==
    IsOrder =>
        LET names == {ingredients[id].name : id \in Selected}
        IN /\ \A k \in 1..Len(out) :
                 /\ out[k].line = "Moving to"
                       => out[k].name \in names \cup {"Bowl Dispenser", "Final Position"}
                 /\ out[k].line = "used" => out[k].name \in names
           /\ \A id \in DOMAIN ingredients : id \notin Selected => ingredients[id] = call.before[id]

\* a successful order on a catalog that has a base it did not select, and a
\* topping and a sauce it did not select that are in stock
C11_Witness ==
    /\ Resolvable
    /\ result.type = "str"
    /\ \E b \in 1..Len(bases) : bases[b] \notin Selected
    /\ \E t \in 1..Len(toppings) :
          toppings[t] \notin Selected /\ check_stock(ingredients[toppings[t]])
    /\ \E x \in 1..Len(sauces) : sauces[x] \notin Selected /\ check_stock(ingredients[sauces[x]])

\* the lines an order prints for its first n visits, the k-th being the one
\* whose consumption fails (k = 0: none fails): for each, the move to its
\* station, then its consumption
VisitLines(n, k) ==
    LET at(j) == IF j = 0 THEN bowl_dispenser_position
                 ELSE ingredients[Traversal[j]].position
        visit(j) ==
            <<[line |-> "Moving to", name |-> ingredients[Traversal[j]].name],
              [line |-> "Moving from", from |-> at(j - 1), to |-> at(j)]>>
            \o (IF j = k THEN <<>>
                ELSE <<[line |-> "used", name |-> ingredients[Traversal[j]].name,
                        stock |-> AfterVisits(Traversal, Traversal[j], j).stock]>>)
        Upto[j \in 0..n] == IF j = 0 THEN <<>> ELSE Upto[j - 1] \o visit(j)
    IN Upto[n]

\* C12: within an order the moves and the consumption attempts come in this
\* order: the Bowl Dispenser, the base, the protein, the toppings by descending
\* index however the caller listed them, the sauce, the Final Position, each
\* ingredient's move before its consumption; a failed consumption ends it.
C12_OrderOfVisits ==
    Resolvable =>
        LET k == FirstShort(Traversal)
            n == IF k = 0 THEN Len(Traversal) ELSE k
            last == ingredients[Traversal[Len(Traversal)]].position
        IN SelectSeq(out, LAMBDA l : l.line # "Alert") =
              <<[line |-> "Moving to", name |-> "Bowl Dispenser"],
                [line |-> "Moving from", from |-> initial_position,
                 to |-> bowl_dispenser_position]>>
              \o VisitLines(n, k)
              \o (IF k # 0 THEN <<>>
                  ELSE <<[line |-> "Moving to", name |-> "Final Position"],
                         [line |-> "Moving from", from |-> last, to |-> final_position]>>)

\* a successful order whose toppings the caller listed in ascending order
C12_Witness ==
    /\ Resolvable
    /\ result.type = "str"
    /\ Len(call.topping_indices) >= 2
    /\ call.topping_indices[1] < call.topping_indices[2]

\* the "used" line l reports a stock below 20% of the ingredient's total_stock
ReportsLow(l) ==
    \E id \in DOMAIN ingredients :
        /\ ingredients[id].name = l.name
        /\ l.stock * 100 < ingredients[id].total_stock * 20

\* the stations an order that completed n visits has been to, and then to
\* the Final Position if it went there
StationsAfter(n, finished) ==
    <<initial_position, bowl_dispenser_position>>
    \o [k \in 1..n |-> ingredients[Traversal[k]].position]
    \o (IF finished THEN <<final_position>> ELSE <<>>)

\* C13: an alert naming X is printed exactly when a consumption of X has just
\* succeeded and left X's stock below 20% of its total_stock: never for a
\* failed consumption or an ingredient not consumed; and an order that alerts
\* goes on as it would have: same result, stocks, head position and distance.
C13_AlertExactlyWhenLow ==
    IsOrder =>
        /\ \A i \in 1..Len(out) :
              /\ out[i].line = "Alert" =>
                    /\ i > 1
                    /\ out[i - 1].line = "used"
                    /\ out[i - 1].name = out[i].name
                    /\ ReportsLow(out[i - 1])
              /\ (out[i].line = "used" /\ ReportsLow(out[i])) =>
                    /\ i < Len(out)
                    /\ out[i + 1] = [line |-> "Alert", name |-> out[i].name]
        /\ LinesOf("Alert") # <<>> =>
              LET k == FirstShort(Traversal)
                  n == IF k = 0 THEN Len(Traversal) ELSE k
                  stations == StationsAfter(n, k = 0)
              IN /\ k = 0 <=> result.type = "str"
                 /\ \A id \in DOMAIN ingredients :
                       ingredients[id] = AfterVisits(Traversal, id, IF k = 0 THEN n ELSE k - 1)
                 /\ current_position = stations[Len(stations)]
                 /\ total_distance = RouteLength(stations)

\* a successful order printed an alert for one ingredient it consumed, went
\* on, and consumed another without an alert
C13_Witness ==
    /\ IsOrder
    /\ result.type = "str"
    /\ \E i, j \in 1..Len(out) :
          /\ i < j
          /\ out[i].line = "Alert"
          /\ out[j].line = "used"
          /\ ~ReportsLow(out[j])

\* the sum of the distances of the moves the last call printed
RECURSIVE LegsLength(_)
LegsLength(legs) ==
    IF legs = <<>> THEN EmptyBag
    ELSE distance(legs[1].from, legs[1].to) (+) LegsLength(Tail(legs))

\* C14: every order starts with the head at the initial position and the
\* distance at 0, whatever the orders before it did and wherever they left
\* the head; so the distance a successful order reports is that of its own
\* route, the same for the same selection on every order.
C14_EveryOrderStartsAfresh ==
    IsOrder =>
        LET legs == LinesOf("Moving from")
        IN /\ legs # <<>> => legs[1].from = initial_position
           /\ \A k \in 2..Len(legs) : legs[k].from = legs[k - 1].to
           /\ total_distance = LegsLength(legs)
           /\ legs = <<>> => current_position = initial_position
           /\ legs # <<>> => current_position = legs[Len(legs)].to
           /\ result.type = "str" =>
                 /\ result.distance = RouteLength(StationsAfter(Len(Traversal), TRUE))
                 /\ \A id \in DOMAIN ingredients :
                       ingredients[id].position = call.before[id].position

\* an order succeeded although the order before it had aborted for lack of
\* stock, leaving the head away from the initial position and a distance
\* behind
C14_Witness ==
    /\ IsOrder
    /\ result.type = "str"
    /\ previous.type = "InsufficientStockError"
    /\ call.position_before # initial_position
    /\ call.position_before # final_position
    /\ call.distance_before # EmptyBag

\* C15: the head has moved to an ingredient's station before its
\* consumption is attempted: when an order aborts with InsufficientStockError
\* on X, the head is left at X's station, the distance includes the move to
\* X, and there has been no move to the Final Position.
C15_HeadLeftAtFailedStation ==
    (Resolvable /\ result.type = "InsufficientStockError") =>
        LET k == FirstShort(Traversal)
            x == ingredients[Traversal[k]]
        IN /\ k > 0
           /\ result.name = x.name
           /\ current_position = x.position
           /\ total_distance = RouteLength(StationsAfter(k, FALSE))
           /\ out[Len(out)].line = "Moving from"
           /\ out[Len(out)].to = x.position
           /\ \A i \in 1..Len(out) :
                 out[i].line = "Moving to" => out[i].name # "Final Position"

\* an order aborted on its third ingredient or a later one, whose station is
\* neither the one before it nor the Final Position
C15_Witness ==
    /\ Resolvable
    /\ result.type = "InsufficientStockError"
    /\ LET k == FirstShort(Traversal)
       IN /\ k >= 3
          /\ ingredients[Traversal[k]].position # ingredients[Traversal[k - 1]].position
          /\ current_position # final_position

\* nodes is one node per ingredient of list, in the order of list, each
\* bound to its ingredient and its use method
LevelOf(nodes, list) ==
    /\ Len(nodes) = Len(list)
    /\ \A i \in 1..Len(list) :
          /\ nodes[i].ingredient = list[i]
          /\ nodes[i].action = list[i]
          /\ nodes[i].name = ingredients[list[i]].name
          /\ nodes[i].stock_check

\* the tree is the complete product Start / Bowl / bases / proteins /
\* toppings / sauces, in catalog order, and ends at the sauces
CompleteProduct ==
    /\ root.name = "Start" /\ root.ingredient = None /\ root.action = None
    /\ Len(root.children) = 1
    /\ LET bowl_node == root.children[1]
       IN /\ bowl_node.name = "Bowl" /\ bowl_node.ingredient = bowls
          /\ LevelOf(bowl_node.children, bases)
          /\ \A b \in 1..Len(bases) :
                LET base_node == bowl_node.children[b]
                IN /\ LevelOf(base_node.children, proteins)
                   /\ \A p \in 1..Len(proteins) :
                         LET protein_node == base_node.children[p]
                         IN /\ LevelOf(protein_node.children, toppings)
                            /\ \A t \in 1..Len(toppings) :
                                  LET topping_node == protein_node.children[t]
                                  IN /\ LevelOf(topping_node.children, sauces)
                                     /\ \A x \in 1..Len(sauces) :
                                           topping_node.children[x].children = <<>>

\* in-range indices (b, p, t, s) resolve to bases[b], proteins[p], toppings[t], sauces[s]
ResolvesInOrder ==
    \A b \in Indices(bases), p \in Indices(proteins), t \in Indices(toppings),
       x \in Indices(sauces) :
        LET r == ResolvePath(root, b, p, <<t>>, x)
        IN /\ r.raised = NotRaised
           /\ [k \in 1..Len(r.path) |-> NodeAt(root, r.path[k]).ingredient]
                 = <<bases[b + 1], proteins[p + 1], toppings[t + 1], sauces[x + 1]>>

\* C16: the catalog tree is the complete product in catalog order, six levels
\* deep (Start, Bowl, base, protein, topping, sauce), the i-th child of a
\* level being the i-th ingredient of its list, so that in-range indices
\* resolve to the ingredients at those indices; and no step ever changes it.
C16_TreeIsCompleteAndFixed ==
    /\ [](CompleteProduct /\ ResolvesInOrder)
    /\ [][root' = root /\ bowls' = bowls /\ bases' = bases /\ proteins' = proteins
          /\ toppings' = toppings /\ sauces' = sauces]_vars

\* an order has succeeded after an order that failed, on a catalog with two
\* entries per category
C16_Witness ==
    /\ IsOrder
    /\ result.type = "str"
    /\ previous.type \in Failures
    /\ Len(bases) >= 2 /\ Len(proteins) >= 2 /\ Len(toppings) >= 2 /\ Len(sauces) >= 2

\* C17: orders never consume the bowls: after any sequence of orders the
\* stock of bowls is its initial total_stock, and no order moves to, consumes,
\* alerts for or fails on the bowls ingredient.
C17_BowlsNeverConsumed ==
    /\ ingredients[bowls].stock = ingredients[bowls].total_stock
    /\ IsOrder =>
          /\ \A i \in 1..Len(out) :
                out[i].line \in {"Moving to", "used", "Alert"}
                   => out[i].name # ingredients[bowls].name
          /\ result.type = "InsufficientStockError" => result.name # ingredients[bowls].name

\* a second order in a row has succeeded on an instance that has one bowl
C17_Witness ==
    /\ IsOrder
    /\ result.type = "str"
    /\ previous.type = "str"
    /\ ingredients[bowls].total_stock = 1
    /\ ingredients[bowls].quantity = 1

\* the "used" line l is of an ingredient whose stock was below 20% of its
\* total_stock already before that consumption
WasLowBefore(l) ==
    \E id \in DOMAIN ingredients :
        /\ ingredients[id].name = l.name
        /\ (l.stock + ingredients[id].quantity) * 100 < ingredients[id].total_stock * 20

\* C18: alerts are not latched: a successful consumption of an ingredient
\* whose stock was already below 20% of its total_stock, in the same order or
\* a later one, prints the alert again.
C18_AlertsRepeat ==
    IsOrder =>
        \A i \in 1..Len(out) :
            (out[i].line = "used" /\ WasLowBefore(out[i])) =>
                /\ i < Len(out)
                /\ out[i + 1] = [line |-> "Alert", name |-> out[i].name]

\* an order alerted for an ingredient, consumed it again and alerted again
C18_Witness ==
    /\ IsOrder
    /\ \E i, j \in 1..Len(out) :
          /\ i < j /\ j < Len(out)
          /\ out[i].line = "Alert"
          /\ out[j].line = "used" /\ out[j].name = out[i].name
          /\ WasLowBefore(out[j])
          /\ out[j + 1] = out[i]

\* C19: an order with an empty topping list fails with an index error before
\* anything is moved or consumed, whatever else it selects: no stock changes,
\* and no order without toppings is ever prepared.
C19_NoToppingsNoOrder ==
    /\ (IsOrder /\ call.topping_indices = <<>>) =>
          /\ result = IndexError
          /\ ingredients = call.before
          /\ out = <<>>
    /\ (IsOrder /\ result.type = "str") => call.topping_indices # <<>>

\* an order without toppings failed although its base, protein and sauce
\* indices were in range and those ingredients in stock
C19_Witness ==
    /\ IsOrder
    /\ call.topping_indices = <<>>
    /\ result.type = "IndexError"
    /\ InBounds(bases, call.base_index)
    /\ InBounds(proteins, call.protein_index)
    /\ InBounds(sauces, call.sauce_index)
    /\ check_stock(ingredients[bases[call.base_index + 1]])
    /\ check_stock(ingredients[proteins[call.protein_index + 1]])
    /\ check_stock(ingredients[sauces[call.sauce_index + 1]])

\* C20 as stated: every order leaves the caller's topping_indices list sorted
\* into descending order, the same indices as many times each, also when it
\* fails with an index error or with InsufficientStockError.
C20_ListLeftSorted ==
    IsOrder => call.left = Descending(call.topping_indices)

\* C20, amended: an order leaves the caller's topping_indices list sorted
\* into descending order, also when it then fails on a topping index, on the
\* sauce index or with InsufficientStockError; an order whose base_index or
\* protein_index does not resolve fails before the sort and leaves the list
\* as the caller passed it.
C20_ListSortedUnlessEarlyFailure ==
    IsOrder =>
        IF /\ IndexInRange(bases, call.base_index)
           /\ IndexInRange(proteins, call.protein_index)
        THEN call.left = Descending(call.topping_indices)
        ELSE result = IndexError /\ call.left = call.topping_indices

\* an order whose list was not in descending order failed for lack of stock
\* and left the list reordered
C20_Witness ==
    /\ IsOrder
    /\ result.type = "InsufficientStockError"
    /\ call.left # call.topping_indices

====
